---- MODULE Spec2Model ----
(***************************************************************************)
(* Model of the audioExport package: the WaveFile and AiffFile writers     *)
(* (Open / WriteBytes / WriteChannels / Close), the header layouts, the    *)
(* sample encoders and the os.File operations they rest on.                *)
(*                                                                         *)
(* A sample value (float64) is represented by a record [num, den] with    *)
(* den a power of two: every product the encoders form is then exact in    *)
(* float64, so the arithmetic below is the arithmetic of the code.         *)
(***************************************************************************)
EXTENDS Integers, Sequences, FiniteSets, TLC

\* ---------------------------------------------------------------- bounds
MaxOpens   == 2      \* calls of Open in a behaviour that reuses the writer
MaxCloses  == 2      \* calls of Close in a behaviour that reuses the writer
MaxWrites  == 2      \* calls of WriteBytes / WriteChannels per behaviour
MaxFaults  == 1      \* I/O failures of the underlying file per behaviour
MaxFrames  == 2      \* samples per channel the caller supplies per behaviour
MaxStreams == 2      \* channel sequences handed to one WriteChannels call
MaxRaw     == 2      \* bytes the caller hands to WriteBytes per behaviour
MaxShort   == 2      \* a failing write stores fewer than MaxShort bytes
MaxBlocks  == 3      \* buffers of 2^30 bytes written per behaviour (under 4 GiB)

\* ------------------------------------------------------- program constants
SampleRate32k   == 32000
SampleRate44_1k == 44100
SampleRate48k   == 48000
SampleRate96k   == 96000
SampleRate192k  == 192000
BPS8  == 8
BPS16 == 16
BPS32 == 32

\* ------------------------------------------------------------- input sets
SampleVals    == {[num |-> -1, den |-> 2], [num |-> 1, den |-> 2]}   \* -0.5, 0.5
RawVals       == {7}
Descriptions  == [NumChannels : {1, 2}, SampleRate : {SampleRate48k},
                  BitsPerSample : {BPS8, BPS16, BPS32, 24}]
ZeroDescription == [NumChannels |-> 0, SampleRate |-> 0, BitsPerSample |-> 0]

SeqsUpTo(S, n) == UNION {[1..k -> S] : k \in 0..n}
ChannelArgs == SeqsUpTo(SeqsUpTo(SampleVals, MaxFrames), MaxStreams)
RawArgs     == SeqsUpTo(RawVals, MaxRaw)

\* What the caller does in one behaviour: a plain life of the writer, a life
\* with an I/O failure, or a reuse of the writer after its first Open.
Life  == [opens |-> 1, writes |-> MaxWrites, closes |-> 1, faults |-> 0,
          frames |-> MaxFrames, raw |-> MaxRaw]
Fault == [opens |-> 1, writes |-> 1, closes |-> MaxCloses, faults |-> MaxFaults,
          frames |-> 1, raw |-> MaxRaw]
Reuse == [opens |-> MaxOpens, writes |-> 1, closes |-> MaxCloses, faults |-> 0,
          frames |-> 1, raw |-> 1]
Budgets == {Life, Fault, Reuse}

\* the descriptions tried on Open alone
AiffRates == {SampleRate32k, SampleRate44_1k, SampleRate48k, SampleRate96k, SampleRate192k}
WideDescriptions == [NumChannels : {0, 1, 2}, SampleRate : AiffRates \cup {22050},
                     BitsPerSample : {BPS8, BPS16, BPS32, 24}]
\* samples at and beyond the ends of [-1, 1], written to a one-channel writer
EdgeVals == {[num |-> -2, den |-> 1], [num |-> -3, den |-> 2], [num |-> -1, den |-> 1],
             [num |-> 0, den |-> 1],
             [num |-> 1, den |-> 1], [num |-> 3, den |-> 2], [num |-> 2, den |-> 1]}
EdgeArgs == SeqsUpTo(SeqsUpTo(EdgeVals, MaxFrames), 1)
MonoDescriptions == [NumChannels : {1}, SampleRate : {SampleRate48k},
                     BitsPerSample : {BPS8, BPS16, BPS32}]
Encode == [opens |-> 1, writes |-> 1, closes |-> 0, faults |-> 0,
           frames |-> MaxFrames, raw |-> 0]
\* one life of the writer under any description, without I/O failures
Cycle == [opens |-> 1, writes |-> MaxWrites, closes |-> 1, faults |-> 0,
          frames |-> 1, raw |-> 1]
\* descriptions of many channels (NumChannels is an int16), and all that an
\* Open alone is tried with
ManyChannelDescriptions == [NumChannels : {1024, 4095, 4096, 32767},
                            SampleRate : {SampleRate48k},
                            BitsPerSample : {BPS8, BPS16, BPS32}]
OpenDescriptions == WideDescriptions \cup ManyChannelDescriptions
\* one life of the writer in which the payload is written in buffers of 2^30
\* bytes
Large == [opens |-> 1, writes |-> MaxBlocks, closes |-> 1, faults |-> 0,
          frames |-> 0, raw |-> 0]
OpenOnly == [opens |-> 1, writes |-> 0, closes |-> 0, faults |-> MaxFaults,
             frames |-> 0, raw |-> 0]

\* ------------------------------------------------- fixed-width arithmetic
\* A 32-bit integer (uint32 or int32) is held as its bit pattern: four base-256
\* digits, least significant first.  16-bit integers are plain integers.
Pow2(n) == 2 ^ n
ToI16(x) == ((x + Pow2(15)) % Pow2(16)) - Pow2(15)
Abs(x) == IF x >= 0 THEN x ELSE -x
\* Go's integer division truncates toward zero
QuoT(a, b) == IF (a >= 0) = (b > 0) THEN Abs(a) \div Abs(b) ELSE -(Abs(a) \div Abs(b))
Reverse(s) == [i \in 1..Len(s) |-> s[Len(s) + 1 - i]]
\* the w <= 4 low digits of the two's complement of x
Digits(x, w) == [i \in 1..w |-> (x \div Pow2(8 * (i - 1))) % 256]
Widen(d, w) == [i \in 1..w |-> IF i <= Len(d) THEN d[i] ELSE 0]
\* a + b modulo 256^Len(a)
AddD(a, b) ==
    LET RECURSIVE c(_)
        c(i) == IF i = 0 THEN 0 ELSE (a[i] + b[i] + c(i - 1)) \div 256
    IN  [i \in 1..Len(a) |-> (a[i] + b[i] + c(i - 1)) % 256]
NegD(a) == AddD([i \in 1..Len(a) |-> 255 - a[i]], Digits(1, Len(a)))
IsNegD(a) == a[Len(a)] >= 128
\* a * m modulo 256^Len(a), for a small m >= 0
MulD(a, m) ==
    LET RECURSIVE c(_)
        c(i) == IF i = 0 THEN 0 ELSE (a[i] * m + c(i - 1)) \div 256
    IN  [i \in 1..Len(a) |-> (a[i] * m + c(i - 1)) % 256]
\* a \div d for an unsigned a and a small d > 0
DivD(a, d) ==
    LET RECURSIVE r(_)
        r(i) == IF i > Len(a) THEN 0 ELSE (r(i + 1) * 256 + a[i]) % d
    IN  [i \in 1..Len(a) |-> (r(i + 1) * 256 + a[i]) \div d]
\* uint32 product a * uint32(s) for a 16-bit signed s
MulU32(a, s) == IF s >= 0 THEN MulD(a, s) ELSE NegD(MulD(a, -s))
\* int32 quotient a / d (truncated) for a small d # 0
QuoI32(a, d) ==
    LET q == DivD(IF IsNegD(a) THEN NegD(a) ELSE a, Abs(d))
    IN  IF IsNegD(a) = (d < 0) THEN q ELSE NegD(q)
MinInt32 == <<0, 0, 0, 128>>
MaxInt32 == <<255, 255, 255, 127>>

\* encoding/binary on a plain integer of w <= 4 bytes, and on a 32-bit pattern
LittleEndian(x, w) == Digits(x, w)
BigEndian(x, w)    == Reverse(Digits(x, w))
LittleEndian32(a)  == a
BigEndian32(a)     == Reverse(a)

\* ASCII tags
TagRIFF == <<82, 73, 70, 70>>
TagWAVE == <<87, 65, 86, 69>>
TagFmt  == <<102, 109, 116, 32>>
TagData == <<100, 97, 116, 97>>
TagFORM == <<70, 79, 82, 77>>
TagAIFF == <<65, 73, 70, 70>>
TagCOMM == <<67, 79, 77, 77>>
TagSSND == <<83, 83, 78, 68>>


\* ------------------------------------------------------- sample encoders
\* float64 -> int32 (the compiler's Cvt64Fto32, which every conversion to a
\* narrower integer goes through) of the float n / den: truncation toward
\* zero; a value int32 cannot hold gives an implementation-dependent result,
\* the minimum int32 on amd64 and the saturated value on arm64.  mag is the
\* magnitude of n in six digits, neg its sign.
Cvt64Fto32(neg, mag, den) ==
    LET q    == DivD(mag, den)
        low  == SubSeq(q, 1, 4)
        fits == /\ q[5] = 0 /\ q[6] = 0
                /\ (q[4] < 128 \/ (neg /\ low = MinInt32))
    IN  IF fits THEN {IF neg THEN NegD(low) ELSE low}
        ELSE {MinInt32, IF neg THEN MinInt32 ELSE MaxInt32}
\* the results of uintN(f) / intN(f): the low digits of the int32
Float8(data) ==
    LET n == data.num * 127 + 127 * data.den
    IN  Cvt64Fto32(n < 0, Widen(Digits(Abs(n), 4), 6), data.den)
Float16(data) ==
    Cvt64Fto32(data.num < 0, Widen(Digits(Abs(data.num * 32767), 4), 6), data.den)
Float32(data) ==
    Cvt64Fto32(data.num < 0, MulD(Widen(MaxInt32, 6), Abs(data.num)), data.den)

\* each encoder gives the set of byte sequences binary.Write may append
WaveFile_write8BitToBuffer(data) == {SubSeq(r, 1, 1) : r \in Float8(data)}
\* variant for C18: the sample is scaled by 32768
WaveFile_write16BitToBuffer_pow2(data) ==
    {SubSeq(r, 1, 2) : r \in Cvt64Fto32(data.num < 0,
                                Widen(Digits(Abs(data.num * 32768), 4), 6), data.den)}
WaveFile_write16BitToBuffer(data) == {SubSeq(r, 1, 2) : r \in Float16(data)}
WaveFile_write32BitToBuffer(data) == {LittleEndian32(r) : r \in Float32(data)}
\* variant for C20: a bit depth other than 8 and 16 is written as 32 bits
WaveFile_writeFloatToBuffer_default32(desc, data) ==
    CASE desc.BitsPerSample = BPS8  -> [err |-> "nil", out |-> WaveFile_write8BitToBuffer(data)]
      [] desc.BitsPerSample = BPS16 -> [err |-> "nil", out |-> WaveFile_write16BitToBuffer(data)]
      [] OTHER -> [err |-> "nil", out |-> WaveFile_write32BitToBuffer(data)]
WaveFile_writeFloatToBuffer(desc, data) ==
    CASE desc.BitsPerSample = BPS8  -> [err |-> "nil", out |-> WaveFile_write8BitToBuffer(data)]
      [] desc.BitsPerSample = BPS16 -> [err |-> "nil", out |-> WaveFile_write16BitToBuffer(data)]
      [] desc.BitsPerSample = BPS32 -> [err |-> "nil", out |-> WaveFile_write32BitToBuffer(data)]
      [] OTHER -> [err |-> "InvalidBitDepth", out |-> {}]

AiffFile_write8BitToBuffer(data) == {SubSeq(r, 1, 1) : r \in Float8(data)}
AiffFile_write16BitToBuffer(data) == {Reverse(SubSeq(r, 1, 2)) : r \in Float16(data)}
AiffFile_write32BitToBuffer(data) == {BigEndian32(r) : r \in Float32(data)}
AiffFile_writeFloatToBuffer(desc, data) ==
    CASE desc.BitsPerSample = BPS8  -> [err |-> "nil", out |-> AiffFile_write8BitToBuffer(data)]
      [] desc.BitsPerSample = BPS16 -> [err |-> "nil", out |-> AiffFile_write16BitToBuffer(data)]
      [] desc.BitsPerSample = BPS32 -> [err |-> "nil", out |-> AiffFile_write32BitToBuffer(data)]
      [] OTHER -> [err |-> "InvalidBitDepth", out |-> {}]

\* ------------------------------------------------------------ the headers
WaveFile_writeRIFFChunk == TagRIFF \o LittleEndian(0, 4) \o TagWAVE
WaveFile_writeFmtChunk(desc) ==
    LET blockAlign == ToI16(QuoT(ToI16(desc.NumChannels * desc.BitsPerSample), 8))
        byteRate   == MulU32(Digits(desc.SampleRate, 4), blockAlign)
    IN  TagFmt \o LittleEndian(16, 4) \o LittleEndian(1, 2)
          \o LittleEndian(desc.NumChannels, 2) \o LittleEndian(desc.SampleRate, 4)
          \o LittleEndian32(byteRate) \o LittleEndian(blockAlign, 2)
          \o LittleEndian(desc.BitsPerSample, 2)
WaveFile_startDataChunk == TagData \o LittleEndian(0, 4)
WaveFile_writeHeader(desc) ==
    [err |-> "nil",
     buf |-> WaveFile_writeRIFFChunk \o WaveFile_writeFmtChunk(desc) \o WaveFile_startDataChunk]

\* variant for C25: 96 kHz is written with the exponent of 48 kHz
AiffFile_convertSampleRate_oneOctave(desc) ==
    CASE desc.SampleRate = SampleRate32k   -> [err |-> "nil", buf |-> <<64, 13, 250, 0, 0, 0, 0, 0, 0, 0>>]
      [] desc.SampleRate = SampleRate44_1k -> [err |-> "nil", buf |-> <<64, 14, 172, 68, 0, 0, 0, 0, 0, 0>>]
      [] desc.SampleRate = SampleRate48k   -> [err |-> "nil", buf |-> <<64, 14, 187, 128, 0, 0, 0, 0, 0, 0>>]
      [] desc.SampleRate = SampleRate96k   -> [err |-> "nil", buf |-> <<64, 14, 187, 128, 0, 0, 0, 0, 0, 0>>]
      [] desc.SampleRate = SampleRate192k  -> [err |-> "nil", buf |-> <<64, 16, 187, 128, 0, 0, 0, 0, 0, 0>>]
      [] OTHER -> [err |-> "InvalidSampleRate", buf |-> <<>>]
\* variant for C9: a rate missing from the table is written as 44.1 kHz
AiffFile_convertSampleRate_default(desc) ==
    CASE desc.SampleRate = SampleRate32k   -> [err |-> "nil", buf |-> <<64, 13, 250, 0, 0, 0, 0, 0, 0, 0>>]
      [] desc.SampleRate = SampleRate48k   -> [err |-> "nil", buf |-> <<64, 14, 187, 128, 0, 0, 0, 0, 0, 0>>]
      [] desc.SampleRate = SampleRate96k   -> [err |-> "nil", buf |-> <<64, 15, 187, 128, 0, 0, 0, 0, 0, 0>>]
      [] desc.SampleRate = SampleRate192k  -> [err |-> "nil", buf |-> <<64, 16, 187, 128, 0, 0, 0, 0, 0, 0>>]
      [] OTHER -> [err |-> "nil", buf |-> <<64, 14, 172, 68, 0, 0, 0, 0, 0, 0>>]
AiffFile_convertSampleRate(desc) ==
    CASE desc.SampleRate = SampleRate32k   -> [err |-> "nil", buf |-> <<64, 13, 250, 0, 0, 0, 0, 0, 0, 0>>]
      [] desc.SampleRate = SampleRate44_1k -> [err |-> "nil", buf |-> <<64, 14, 172, 68, 0, 0, 0, 0, 0, 0>>]
      [] desc.SampleRate = SampleRate48k   -> [err |-> "nil", buf |-> <<64, 14, 187, 128, 0, 0, 0, 0, 0, 0>>]
      [] desc.SampleRate = SampleRate96k   -> [err |-> "nil", buf |-> <<64, 15, 187, 128, 0, 0, 0, 0, 0, 0>>]
      [] desc.SampleRate = SampleRate192k  -> [err |-> "nil", buf |-> <<64, 16, 187, 128, 0, 0, 0, 0, 0, 0>>]
      [] OTHER -> [err |-> "InvalidSampleRate", buf |-> <<>>]
AiffFile_writeContainerChunk == TagFORM \o BigEndian(0, 4) \o TagAIFF
AiffFile_writeCommonChunk(desc) ==
    LET sampleRate == AiffFile_convertSampleRate(desc)
        front == TagCOMM \o BigEndian(18, 4) \o BigEndian(desc.NumChannels, 2)
                   \o BigEndian(0, 4) \o BigEndian(desc.BitsPerSample, 2)
    IN  IF sampleRate.err # "nil" THEN [err |-> sampleRate.err, buf |-> front]
        ELSE [err |-> "nil", buf |-> front \o sampleRate.buf]
AiffFile_startDataChunk ==
    TagSSND \o BigEndian(0, 4) \o BigEndian(0, 4) \o BigEndian(0, 4)
AiffFile_writeHeader(desc) ==
    LET comm == AiffFile_writeCommonChunk(desc)
    IN  IF comm.err # "nil"
        THEN [err |-> comm.err, buf |-> AiffFile_writeContainerChunk \o comm.buf]
        ELSE [err |-> "nil",
              buf |-> AiffFile_writeContainerChunk \o comm.buf \o AiffFile_startDataChunk]


\* ------------------------------------------------------------------ state
VARIABLE kind          \* which writer this is: "WaveFile" or "AiffFile"
VARIABLE file          \* the field file (*os.File): "nil", "open" or "closed"
VARIABLE description   \* the field description
VARIABLE bytesWritten  \* the field bytesWritten (uint32 / int32), as its bit pattern
VARIABLE disk          \* contents of the file the handle was created on
VARIABLE pos           \* the handle's file offset (moved by Write, not by WriteAt)
VARIABLE call          \* the last public call: its arguments and what it returned
VARIABLE nopens        \* calls of Open so far
VARIABLE clean         \* no call has returned an error so far
VARIABLE afterClose    \* Close has been called since the last call of Open
VARIABLE opened        \* the last call of Open returned nil
VARIABLE left          \* what the caller may still do (see Budgets)
VARIABLE blocks        \* buffers of 2^30 bytes the file holds that disk does not list

vars == <<kind, file, description, bytesWritten, disk, pos, call, nopens, clean,
          afterClose, opened, left, blocks>>

NoCall == [op |-> "none", err |-> "nil", desc |-> ZeroDescription,
           bytes |-> <<>>, channels |-> <<>>, was |-> "nil", n |-> 0, blocks |-> 0]

Init ==
    /\ kind \in {"WaveFile", "AiffFile"}
    /\ file = "nil"
    /\ description = ZeroDescription
    /\ bytesWritten = Digits(0, 4)
    /\ disk = <<>>
    /\ pos = 0
    /\ call = NoCall
    /\ nopens = 0
    /\ clean = TRUE
    /\ afterClose = FALSE
    /\ opened = FALSE
    /\ left \in Budgets
    /\ blocks = 0

\* ---------------------------------------------------------------- os.File
Prefix(b, n) == SubSeq(b, 1, n)
\* the file after b is stored at 0-based offset off (a gap reads as zeros)
PutAt(d, b, off) ==
    IF Len(b) = 0 THEN d
    ELSE IF off >= Len(d) THEN d \o [i \in 1..(off - Len(d)) |-> 0] \o b
    ELSE IF off + Len(b) >= Len(d) THEN SubSeq(d, 1, off) \o b
    ELSE SubSeq(d, 1, off) \o b \o SubSeq(d, off + Len(b) + 1, Len(d))
\* a failing write stores k < Len(b) bytes and reports k and an error
ShortCounts(b) == IF left.faults > 0
                  THEN {k \in 0..(Len(b) - 1) : k < MaxShort} ELSE {}
\* (*os.File).Write on handle state f: what it reports and what it leaves
File_Write(f, d, p, b) ==
    CASE f = "nil"    -> {[n |-> 0, err |-> "ErrInvalid", disk |-> d, pos |-> p, fault |-> 0]}
      [] f = "closed" -> {[n |-> 0, err |-> "ErrClosed", disk |-> d, pos |-> p, fault |-> 0]}
      [] OTHER ->
           {[n |-> Len(b), err |-> "nil", disk |-> PutAt(d, b, p), pos |-> p + Len(b), fault |-> 0]}
           \cup {[n |-> k, err |-> "ErrIO", disk |-> PutAt(d, Prefix(b, k), p),
                  pos |-> p + k, fault |-> 1] : k \in ShortCounts(b)}
\* (*os.File).WriteAt: the offset of the handle does not move
File_WriteAt(f, d, b, off) ==
    CASE f = "nil"    -> {[err |-> "ErrInvalid", disk |-> d, fault |-> 0]}
      [] f = "closed" -> {[err |-> "ErrClosed", disk |-> d, fault |-> 0]}
      [] OTHER ->
           {[err |-> "nil", disk |-> PutAt(d, b, off), fault |-> 0]}
           \cup {[err |-> "ErrIO", disk |-> PutAt(d, Prefix(b, k), off), fault |-> 1]
                 : k \in ShortCounts(b)}
\* (*os.File).Close: an open handle is released even when an error is reported
File_Close(f) ==
    CASE f = "nil"    -> {[err |-> "ErrInvalid", file |-> "nil", fault |-> 0]}
      [] f = "closed" -> {[err |-> "ErrClosed", file |-> "closed", fault |-> 0]}
      [] OTHER ->
           {[err |-> "nil", file |-> "closed", fault |-> 0]}
           \cup (IF left.faults > 0
                 THEN {[err |-> "ErrIO", file |-> "closed", fault |-> 1]} ELSE {})
\* os.Create: a new handle on an empty (created or truncated) file, or nil
os_Create ==
    {[err |-> "nil", file |-> "open", fault |-> 0]}
    \cup (IF left.faults > 0
          THEN {[err |-> "ErrCreate", file |-> "nil", fault |-> 1]} ELSE {})

\* ------------------------------------------------- WriteChannels, the loops
\* variant for C4: only too many channels are refused
CountMismatch_tooMany(channels, desc) == Len(channels) > desc.NumChannels
\* "If too many channels are given, return an error."
CountMismatch(channels, desc) == Len(channels) # desc.NumChannels
\* variant for C5: only a stream shorter than the first one is refused
ChanLength_shorter(channels) ==
    LET RECURSIVE scan(_, _)
        scan(i, chanLength) ==
            IF i > Len(channels) THEN [err |-> "nil", chanLength |-> chanLength]
            ELSE IF chanLength = -1 THEN scan(i + 1, Len(channels[i]))
            ELSE IF Len(channels[i]) < chanLength
                 THEN [err |-> "ChannelLength", chanLength |-> chanLength]
                 ELSE scan(i + 1, chanLength)
    IN  scan(1, -1)
\* lines "Make sure the data streams are all of the same length"
ChanLength(channels) ==
    LET RECURSIVE scan(_, _)
        scan(i, chanLength) ==
            IF i > Len(channels) THEN [err |-> "nil", chanLength |-> chanLength]
            ELSE IF chanLength = -1 THEN scan(i + 1, Len(channels[i]))
            ELSE IF Len(channels[i]) # chanLength
                 THEN [err |-> "ChannelLength", chanLength |-> chanLength]
                 ELSE scan(i + 1, chanLength)
    IN  scan(1, -1)
\* variant for C6: the loops nested the other way round (channel by channel)
LoopOrder_byChannel(channels, chanLength) ==
    LET RECURSIVE step(_, _)
        step(j, i) ==
            IF j >= Len(channels) THEN <<>>
            ELSE IF i >= chanLength THEN step(j + 1, 0)
            ELSE <<channels[j + 1][i + 1]>> \o step(j, i + 1)
    IN  step(0, 0)
\* lines "Write to the buffer": i and j are the loop variables of the code.
\* LoopOrder is the sequence of samples in the order the loops reach them,
\* FillBuffer the first error an encoder returns or else the set of buffers
\* the encoders may have filled, MuxLoop the two together.
LoopOrder(channels, chanLength) ==
    LET RECURSIVE step(_, _)
        step(i, j) ==
            IF i >= chanLength THEN <<>>
            ELSE IF j >= Len(channels) THEN step(i + 1, 0)
            ELSE <<channels[j + 1][i + 1]>> \o step(i, j + 1)
    IN  step(0, 0)
FillBuffer(encs) ==
    LET RECURSIVE fill(_)
        fill(k) == IF k = 0 THEN {<<>>}
                   ELSE {b \o x : b \in fill(k - 1), x \in encs[k].out}
    IN  IF \E k \in 1..Len(encs) : encs[k].err # "nil"
        THEN [err |-> encs[CHOOSE k \in 1..Len(encs) : encs[k].err # "nil"].err, bufs |-> {}]
        ELSE [err |-> "nil", bufs |-> fill(Len(encs))]
WaveFile_MuxLoop(desc, channels, chanLength) ==
    LET order == LoopOrder(channels, chanLength)
    IN  FillBuffer([k \in 1..Len(order) |-> WaveFile_writeFloatToBuffer(desc, order[k])])
AiffFile_MuxLoop(desc, channels, chanLength) ==
    LET order == LoopOrder(channels, chanLength)
    IN  FillBuffer([k \in 1..Len(order) |-> AiffFile_writeFloatToBuffer(desc, order[k])])

\* ---------------------------------------------------------------- actions
Longest(channels) ==
    IF channels = <<>> THEN 0
    ELSE CHOOSE m \in {Len(channels[i]) : i \in 1..Len(channels)} :
             \A i \in 1..Len(channels) : Len(channels[i]) <= m
\* the call returns e; f I/O failures happened in it
Returns(rec, e, f) ==
    /\ call' = [rec EXCEPT !.err = e]
    /\ clean' = (clean /\ e = "nil")
    /\ left' = [left EXCEPT !.faults = @ - f, !.opens = @ - (IF rec.op = "Open" THEN 1 ELSE 0),
                            !.closes = @ - (IF rec.op = "Close" THEN 1 ELSE 0),
                            !.writes = @ - (IF rec.op \in {"WriteBytes", "WriteChannels"} THEN 1 ELSE 0),
                            !.raw = @ - Len(rec.bytes),
                            !.frames = @ - Longest(rec.channels)]
    /\ nopens' = nopens + (IF rec.op = "Open" THEN 1 ELSE 0)
    /\ afterClose' = (rec.op = "Close" \/ (afterClose /\ rec.op # "Open"))
    /\ opened' = (IF rec.op = "Open" THEN e = "nil" ELSE opened)
    /\ blocks' = blocks + rec.blocks
    /\ UNCHANGED kind


\* ---- WaveFile
WaveFile_Open(descs) ==
    /\ kind = "WaveFile" /\ left.opens > 0
    /\ \E desc \in descs, c \in os_Create :
        LET rec == [NoCall EXCEPT !.op = "Open", !.desc = desc, !.was = file]
            hdr == WaveFile_writeHeader(desc)
        IN  IF c.err # "nil"
            THEN /\ file' = c.file /\ Returns(rec, c.err, c.fault)
                 /\ UNCHANGED <<description, bytesWritten, disk, pos>>
            ELSE IF hdr.err # "nil"
            THEN /\ file' = c.file /\ description' = desc
                 /\ disk' = <<>> /\ pos' = 0 /\ Returns(rec, hdr.err, 0)
                 /\ UNCHANGED bytesWritten
            ELSE \E w \in File_Write(c.file, <<>>, 0, hdr.buf) :
                 /\ file' = c.file /\ description' = desc
                 /\ disk' = w.disk /\ pos' = w.pos /\ Returns(rec, w.err, w.fault)
                 /\ UNCHANGED bytesWritten

\* variant for C19: the total grows by the bytes handed over, not by the
\* bytes the file reports as written
WaveFile_WriteBytes_body_allBytes(bytes, rec) ==
    \E w \in File_Write(file, disk, pos, bytes) :
        /\ bytesWritten' = AddD(bytesWritten, Digits(Len(bytes), 4))
        /\ disk' = w.disk /\ pos' = w.pos
        /\ Returns([rec EXCEPT !.n = w.n], w.err, w.fault)
        /\ UNCHANGED <<file, description>>
\* variant for C11: the total is that of the last call alone
WaveFile_WriteBytes_body_lastCall(bytes, rec) ==
    \E w \in File_Write(file, disk, pos, bytes) :
        /\ bytesWritten' = Digits(w.n, 4)
        /\ disk' = w.disk /\ pos' = w.pos
        /\ Returns([rec EXCEPT !.n = w.n], w.err, w.fault)
        /\ UNCHANGED <<file, description>>
WaveFile_WriteBytes_body(bytes, rec) ==
    \E w \in File_Write(file, disk, pos, bytes) :
        /\ bytesWritten' = AddD(bytesWritten, Digits(w.n, 4))
        /\ disk' = w.disk /\ pos' = w.pos
        /\ Returns([rec EXCEPT !.n = w.n], w.err, w.fault)
        /\ UNCHANGED <<file, description>>

WaveFile_WriteBytes(raws) ==
    /\ kind = "WaveFile" /\ left.writes > 0
    /\ \E bytes \in raws :
        /\ Len(bytes) <= left.raw
        /\ WaveFile_WriteBytes_body(bytes,
              [NoCall EXCEPT !.op = "WriteBytes", !.bytes = bytes, !.was = file])

\* WriteBytes with a buffer of 2^30 bytes and no I/O failure: an open handle
\* stores all of it.  disk and pos leave these bytes out, blocks counts them.
WaveFile_WriteBytes_bulk ==
    /\ kind = "WaveFile" /\ left.writes > 0 /\ blocks < MaxBlocks
    /\ LET rec == [NoCall EXCEPT !.op = "WriteBytes", !.was = file]
       IN  IF file = "open"
           THEN /\ bytesWritten' = AddD(bytesWritten, Digits(Pow2(30), 4))
                /\ Returns([rec EXCEPT !.n = Pow2(30), !.blocks = 1], "nil", 0)
           ELSE /\ bytesWritten' = bytesWritten
                /\ Returns(rec, IF file = "nil" THEN "ErrInvalid" ELSE "ErrClosed", 0)
    /\ UNCHANGED <<file, description, disk, pos>>

WaveFile_WriteChannels(chans) ==
    /\ kind = "WaveFile" /\ left.writes > 0
    /\ \E channels \in chans :
        LET rec == [NoCall EXCEPT !.op = "WriteChannels", !.channels = channels,
                                  !.was = file]
            len == ChanLength(channels)
            mux == WaveFile_MuxLoop(description, channels, len.chanLength)
            Fails(e) == /\ Returns(rec, e, 0)
                        /\ UNCHANGED <<file, description, bytesWritten, disk, pos>>
        IN  /\ \A i \in 1..Len(channels) : Len(channels[i]) <= left.frames
            /\ IF CountMismatch(channels, description) THEN Fails("ChannelCount")
               ELSE IF len.err # "nil" THEN Fails(len.err)
               ELSE IF mux.err # "nil" THEN Fails(mux.err)
               ELSE \E buffer \in mux.bufs : WaveFile_WriteBytes_body(buffer, rec)

\* variant for C22: the data size is stored behind the header, not in it
WaveFile_closeDataChunk_behindHeader(d) ==
    File_WriteAt(file, d, LittleEndian32(bytesWritten), 44)
WaveFile_closeDataChunk(d) ==
    File_WriteAt(file, d, LittleEndian32(bytesWritten), 40)
\* variant for C1: the size of the whole header is added, not the 36 bytes
\* that follow the size field
WaveFile_closeRIFFChunk_wholeHeader(d) ==
    File_WriteAt(file, d, LittleEndian32(AddD(bytesWritten, Digits(44, 4))), 4)
WaveFile_closeRIFFChunk(d) ==
    File_WriteAt(file, d, LittleEndian32(AddD(bytesWritten, Digits(36, 4))), 4)

WaveFile_Close ==
    /\ kind = "WaveFile" /\ left.closes > 0
    /\ LET rec == [NoCall EXCEPT !.op = "Close", !.was = file]
           Fails(r) == /\ Returns(rec, r.err, r.fault) /\ disk' = r.disk
                       /\ UNCHANGED file
       IN  \E r1 \in WaveFile_closeDataChunk(disk) :
             IF r1.err # "nil" THEN Fails(r1)
             ELSE \E r2 \in WaveFile_closeRIFFChunk(r1.disk) :
                  IF r2.err # "nil" THEN Fails(r2)
                  ELSE \E r3 \in File_Close(file) :
                       /\ Returns(rec, r3.err, r3.fault) /\ disk' = r2.disk
                       /\ file' = r3.file
    /\ UNCHANGED <<description, bytesWritten, pos>>

\* ---- AiffFile
AiffFile_Open(descs) ==
    /\ kind = "AiffFile" /\ left.opens > 0
    /\ \E desc \in descs, c \in os_Create :
        LET rec == [NoCall EXCEPT !.op = "Open", !.desc = desc, !.was = file]
            hdr == AiffFile_writeHeader(desc)
        IN  IF c.err # "nil"
            THEN /\ file' = c.file /\ Returns(rec, c.err, c.fault)
                 /\ UNCHANGED <<description, bytesWritten, disk, pos>>
            ELSE IF hdr.err # "nil"
            THEN /\ file' = c.file /\ description' = desc
                 /\ disk' = <<>> /\ pos' = 0 /\ Returns(rec, hdr.err, 0)
                 /\ UNCHANGED bytesWritten
            ELSE \E w \in File_Write(c.file, <<>>, 0, hdr.buf) :
                 /\ file' = c.file /\ description' = desc
                 /\ disk' = w.disk /\ pos' = w.pos /\ Returns(rec, w.err, w.fault)
                 /\ UNCHANGED bytesWritten

AiffFile_WriteBytes_body(bytes, rec) ==
    \E w \in File_Write(file, disk, pos, bytes) :
        /\ bytesWritten' = AddD(bytesWritten, Digits(w.n, 4))
        /\ disk' = w.disk /\ pos' = w.pos
        /\ Returns([rec EXCEPT !.n = w.n], w.err, w.fault)
        /\ UNCHANGED <<file, description>>

AiffFile_WriteBytes(raws) ==
    /\ kind = "AiffFile" /\ left.writes > 0
    /\ \E bytes \in raws :
        /\ Len(bytes) <= left.raw
        /\ AiffFile_WriteBytes_body(bytes,
              [NoCall EXCEPT !.op = "WriteBytes", !.bytes = bytes, !.was = file])

\* WriteBytes with a buffer of 2^30 bytes and no I/O failure: an open handle
\* stores all of it.  disk and pos leave these bytes out, blocks counts them.
AiffFile_WriteBytes_bulk ==
    /\ kind = "AiffFile" /\ left.writes > 0 /\ blocks < MaxBlocks
    /\ LET rec == [NoCall EXCEPT !.op = "WriteBytes", !.was = file]
       IN  IF file = "open"
           THEN /\ bytesWritten' = AddD(bytesWritten, Digits(Pow2(30), 4))
                /\ Returns([rec EXCEPT !.n = Pow2(30), !.blocks = 1], "nil", 0)
           ELSE /\ bytesWritten' = bytesWritten
                /\ Returns(rec, IF file = "nil" THEN "ErrInvalid" ELSE "ErrClosed", 0)
    /\ UNCHANGED <<file, description, disk, pos>>

AiffFile_WriteChannels(chans) ==
    /\ kind = "AiffFile" /\ left.writes > 0
    /\ \E channels \in chans :
        LET rec == [NoCall EXCEPT !.op = "WriteChannels", !.channels = channels,
                                  !.was = file]
            len == ChanLength(channels)
            mux == AiffFile_MuxLoop(description, channels, len.chanLength)
            Fails(e) == /\ Returns(rec, e, 0)
                        /\ UNCHANGED <<file, description, bytesWritten, disk, pos>>
        IN  /\ \A i \in 1..Len(channels) : Len(channels[i]) <= left.frames
            /\ IF CountMismatch(channels, description) THEN Fails("ChannelCount")
               ELSE IF len.err # "nil" THEN Fails(len.err)
               ELSE IF mux.err # "nil" THEN Fails(mux.err)
               ELSE \E buffer \in mux.bufs : AiffFile_WriteBytes_body(buffer, rec)

\* variant for C2: the 8 bytes of offset and block size are not counted
AiffFile_closeDataChunk_payloadOnly(d) ==
    File_WriteAt(file, d, BigEndian32(bytesWritten), 42)
AiffFile_closeDataChunk(d) ==
    File_WriteAt(file, d, BigEndian32(AddD(bytesWritten, Digits(8, 4))), 42)
\* description.BitsPerSample is not 0 where the handle accepts WriteAt: the
\* handle was then created by an Open, which stored a description of descs
AiffFile_closeCommonChunk(d) ==
    File_WriteAt(file, d, BigEndian32(QuoI32(bytesWritten, description.BitsPerSample)), 22)
\* variant for C16: the size of the whole header is added, not the 46 bytes
\* that follow the size field
AiffFile_closeContainerChunk_wholeHeader(d) ==
    File_WriteAt(file, d, BigEndian32(AddD(bytesWritten, Digits(54, 4))), 4)
AiffFile_closeContainerChunk(d) ==
    File_WriteAt(file, d, BigEndian32(AddD(bytesWritten, Digits(46, 4))), 4)

AiffFile_Close ==
    /\ kind = "AiffFile" /\ left.closes > 0
    /\ LET rec == [NoCall EXCEPT !.op = "Close", !.was = file]
           Fails(r) == /\ Returns(rec, r.err, r.fault) /\ disk' = r.disk
                       /\ UNCHANGED file
       IN  \E r1 \in AiffFile_closeDataChunk(disk) :
             IF r1.err # "nil" THEN Fails(r1)
             ELSE \E r2 \in AiffFile_closeCommonChunk(r1.disk) :
                  IF r2.err # "nil" THEN Fails(r2)
                  ELSE \E r3 \in AiffFile_closeContainerChunk(r2.disk) :
                       IF r3.err # "nil" THEN Fails(r3)
                       ELSE \E r4 \in File_Close(file) :
                            /\ Returns(rec, r4.err, r4.fault) /\ disk' = r3.disk
                            /\ file' = r4.file
    /\ UNCHANGED <<description, bytesWritten, pos>>

\* ------------------------------------------------------ the specification
Next ==
    \/ WaveFile_Open(Descriptions)
    \/ WaveFile_WriteBytes(RawArgs)
    \/ WaveFile_WriteChannels(ChannelArgs)
    \/ WaveFile_Close
    \/ AiffFile_Open(Descriptions)
    \/ AiffFile_WriteBytes(RawArgs)
    \/ AiffFile_WriteChannels(ChannelArgs)
    \/ AiffFile_Close

Spec == Init /\ [][Next]_vars


\* Open alone, over a wider set of descriptions
InitOpen ==
    /\ kind \in {"WaveFile", "AiffFile"}
    /\ file = "nil"
    /\ description = ZeroDescription
    /\ bytesWritten = Digits(0, 4)
    /\ disk = <<>>
    /\ pos = 0
    /\ call = NoCall
    /\ nopens = 0
    /\ clean = TRUE
    /\ afterClose = FALSE
    /\ opened = FALSE
    /\ left = OpenOnly
    /\ blocks = 0

NextOpen ==
    \/ WaveFile_Open(OpenDescriptions)
    \/ AiffFile_Open(OpenDescriptions)

SpecOpen == InitOpen /\ [][NextOpen]_vars

\* one life of the writer, over the wider set of descriptions
InitCycle ==
    /\ kind \in {"WaveFile", "AiffFile"}
    /\ file = "nil"
    /\ description = ZeroDescription
    /\ bytesWritten = Digits(0, 4)
    /\ disk = <<>>
    /\ pos = 0
    /\ call = NoCall
    /\ nopens = 0
    /\ clean = TRUE
    /\ afterClose = FALSE
    /\ opened = FALSE
    /\ left = Cycle
    /\ blocks = 0

NextCycle ==
    \/ WaveFile_Open(WideDescriptions)
    \/ WaveFile_WriteBytes(RawArgs)
    \/ WaveFile_WriteChannels(ChannelArgs)
    \/ WaveFile_Close
    \/ AiffFile_Open(WideDescriptions)
    \/ AiffFile_WriteBytes(RawArgs)
    \/ AiffFile_WriteChannels(ChannelArgs)
    \/ AiffFile_Close

SpecCycle == InitCycle /\ [][NextCycle]_vars

\* the encoders alone: one WriteChannels call on a newly opened writer
InitEncode ==
    /\ kind \in {"WaveFile", "AiffFile"}
    /\ file = "nil"
    /\ description = ZeroDescription
    /\ bytesWritten = Digits(0, 4)
    /\ disk = <<>>
    /\ pos = 0
    /\ call = NoCall
    /\ nopens = 0
    /\ clean = TRUE
    /\ afterClose = FALSE
    /\ opened = FALSE
    /\ left = Encode
    /\ blocks = 0

NextEncode ==
    \/ WaveFile_Open(MonoDescriptions)
    \/ WaveFile_WriteChannels(EdgeArgs)
    \/ AiffFile_Open(MonoDescriptions)
    \/ AiffFile_WriteChannels(EdgeArgs)

SpecEncode == InitEncode /\ [][NextEncode]_vars

\* one life of the writer with a payload of up to MaxBlocks * 2^30 bytes
InitLarge ==
    /\ kind \in {"WaveFile", "AiffFile"}
    /\ file = "nil"
    /\ description = ZeroDescription
    /\ bytesWritten = Digits(0, 4)
    /\ disk = <<>>
    /\ pos = 0
    /\ call = NoCall
    /\ nopens = 0
    /\ clean = TRUE
    /\ afterClose = FALSE
    /\ opened = FALSE
    /\ left = Large
    /\ blocks = 0

NextLarge ==
    \/ WaveFile_Open(Descriptions)
    \/ WaveFile_WriteBytes_bulk
    \/ WaveFile_Close
    \/ AiffFile_Open(Descriptions)
    \/ AiffFile_WriteBytes_bulk
    \/ AiffFile_Close

SpecLarge == InitLarge /\ [][NextLarge]_vars

\* ------------------------------------------------------------- properties
WriteOps == {"WriteBytes", "WriteChannels"}
SupportedBits == {8, 16, 32}
\* the calls so far were one Open, then writes, then the Close that has just
\* returned, and all of them returned nil
ClosedCleanly == clean /\ nopens = 1 /\ call.op = "Close"

\* C1: WaveFile, after a successful Open, successful writes and a successful
\* Close: the little-endian field at offset 40 is the number of payload bytes
\* written (all the bytes behind the 44 header bytes) and the field at offset 4
\* is that number plus 36.
C1_WaveSizeFields ==
    (kind = "WaveFile" /\ ClosedCleanly) =>
        /\ Len(disk) >= 44
        /\ SubSeq(disk, 41, 44) = LittleEndian(Len(disk) - 44, 4)
        /\ SubSeq(disk, 5, 8) = LittleEndian(Len(disk) - 44 + 36, 4)
\* the end-to-end example: 2 channels, 48000 Hz, 16 bits, one frame (0.5, -0.5)
C1_Witness ==
    /\ kind = "WaveFile" /\ ClosedCleanly
    /\ description = [NumChannels |-> 2, SampleRate |-> 48000, BitsPerSample |-> 16]
    /\ SubSeq(disk, 45, Len(disk)) = <<255, 63, 1, 192>>
    /\ SubSeq(disk, 41, 44) = <<4, 0, 0, 0>>
    /\ SubSeq(disk, 5, 8) = <<40, 0, 0, 0>>

\* C2: AiffFile, after a successful Open, successful writes and a successful
\* Close: the big-endian field at offset 42 is the number of payload bytes
\* written (all the bytes behind the 54 header bytes) plus 8 and the field at
\* offset 4 is that number plus 46.
C2_AiffSizeFields ==
    (kind = "AiffFile" /\ ClosedCleanly) =>
        /\ Len(disk) >= 54
        /\ SubSeq(disk, 43, 46) = BigEndian(Len(disk) - 54 + 8, 4)
        /\ SubSeq(disk, 5, 8) = BigEndian(Len(disk) - 54 + 46, 4)
C2_Witness ==
    /\ kind = "AiffFile" /\ ClosedCleanly
    /\ description = [NumChannels |-> 2, SampleRate |-> 48000, BitsPerSample |-> 16]
    /\ SubSeq(disk, 55, Len(disk)) = <<63, 255, 192, 1>>
    /\ SubSeq(disk, 43, 46) = <<0, 0, 0, 12>>
    /\ SubSeq(disk, 5, 8) = <<0, 0, 0, 50>>

\* C3: AiffFile, after a successful Open with a supported bit depth,
\* successful writes and a successful Close: the big-endian field at offset 22
\* is the number of payload bytes divided by (bitsPerSample / 8).
C3_AiffSampleFrames ==
    (kind = "AiffFile" /\ ClosedCleanly /\ description.BitsPerSample \in SupportedBits) =>
        SubSeq(disk, 23, 26)
            = BigEndian(QuoT(Len(disk) - 54, QuoT(description.BitsPerSample, 8)), 4)

\* C4: a WriteChannels call on a writer whose handle is open, with a number of
\* channel sequences other than description.NumChannels, returns an error and
\* leaves the file, the file offset and the running total as they were.
C4_ChannelCountRejected ==
    [][(/\ call'.op = "WriteChannels"
        /\ file = "open"
        /\ Len(call'.channels) # description.NumChannels)
       => (/\ call'.err # "nil"
           /\ disk' = disk /\ pos' = pos /\ bytesWritten' = bytesWritten)]_vars
C4_Witness ==
    /\ call.op = "WriteChannels" /\ call.was = "open" /\ nopens = 1
    /\ description.NumChannels = 2 /\ Len(call.channels) = 1
    /\ Len(call.channels[1]) > 0
    /\ call.err = "ChannelCount"
    /\ bytesWritten = Digits(0, 4)

\* C5: a WriteChannels call on a writer whose handle is open, with
\* description.NumChannels channel sequences that are not all of one length,
\* returns an error and leaves the file, the file offset and the running total
\* as they were, whichever sequence is the one that differs.
C5_ChannelLengthRejected ==
    [][(/\ call'.op = "WriteChannels"
        /\ file = "open"
        /\ Len(call'.channels) = description.NumChannels
        /\ \E i, j \in 1..Len(call'.channels) :
               Len(call'.channels[i]) # Len(call'.channels[j]))
       => (/\ call'.err # "nil"
           /\ disk' = disk /\ pos' = pos /\ bytesWritten' = bytesWritten)]_vars
\* the later sequence is the longer one
C5_Witness ==
    /\ call.op = "WriteChannels" /\ call.was = "open" /\ nopens = 1
    /\ description.NumChannels = 2 /\ Len(call.channels) = 2
    /\ Len(call.channels[1]) < Len(call.channels[2])
    /\ Len(call.channels[1]) > 0
    /\ call.err = "ChannelLength"
    /\ bytesWritten = Digits(0, 4)

\* the ways the writer may encode one sample under the description
Encodings(data) ==
    IF kind = "WaveFile" THEN WaveFile_writeFloatToBuffer(description, data).out
    ELSE AiffFile_writeFloatToBuffer(description, data).out

\* C6: a WriteChannels call that returns nil, with N channels of length L,
\* stores N*L encoded samples from the file offset on, the sample at position
\* i*N + c being the encoding of channels[c][i]; the earlier contents stay, so
\* that the frames of successive calls follow one another.
C6_FrameOrder ==
    [][(call'.op = "WriteChannels" /\ call'.err = "nil") =>
        LET channels == call'.channels
            N == Len(channels)
            L == IF N = 0 THEN 0 ELSE Len(channels[1])
            w == description.BitsPerSample \div 8
        IN  /\ pos' = pos + N * L * w
            /\ bytesWritten' = AddD(bytesWritten, Digits(N * L * w, 4))
            /\ \A i \in 0..(L - 1), c \in 0..(N - 1) :
                 SubSeq(disk', pos + (i * N + c) * w + 1, pos + (i * N + c + 1) * w)
                     \in Encodings(channels[c + 1][i + 1])
            /\ Len(disk') >= Len(disk) /\ SubSeq(disk', 1, pos) = SubSeq(disk, 1, pos)
            /\ pos = Len(disk) => Len(disk') = Len(disk) + N * L * w]_vars
\* two calls of one frame each, (-0.5, 0.5) and then (0.5, -0.5)
C6_Witness ==
    /\ kind = "WaveFile" /\ clean /\ nopens = 1
    /\ description = [NumChannels |-> 2, SampleRate |-> 48000, BitsPerSample |-> 16]
    /\ call.op = "WriteChannels"
    /\ call.channels = << <<[num |-> 1, den |-> 2]>>, <<[num |-> -1, den |-> 2]>> >>
    /\ SubSeq(disk, 45, Len(disk)) = <<1, 192, 255, 63, 255, 63, 1, 192>>

\* C7: once Close has been called, a later WriteBytes or WriteChannels call
\* returns an error and leaves the file and the running total as they were.
C7_NoWriteAfterClose ==
    [][(afterClose /\ call'.op \in WriteOps)
       => (call'.err # "nil" /\ disk' = disk /\ bytesWritten' = bytesWritten)]_vars

\* C8: an Open with a description of zero channels, or of a bit depth other
\* than 8, 16 and 32, returns an error and no byte is in the file.
C8_OpenValidates ==
    (call.op = "Open"
        /\ (call.desc.NumChannels = 0 \/ call.desc.BitsPerSample \notin SupportedBits))
    => (call.err # "nil" /\ disk = <<>>)

\* C9: AiffFile.Open with a rate outside {32000, 44100, 48000, 96000, 192000}
\* returns an error and no byte is in the file; with a rate of the set and no
\* I/O failure it returns nil.
C9_AiffRateChecked ==
    (kind = "AiffFile" /\ call.op = "Open") =>
        IF call.desc.SampleRate \notin {32000, 44100, 48000, 96000, 192000}
        THEN call.err # "nil" /\ disk = <<>>
        ELSE left.faults = OpenOnly.faults => (call.err = "nil" /\ Len(disk) = 54)
C9_Witness ==
    /\ kind = "AiffFile" /\ call.op = "Open"
    /\ call.desc.SampleRate = 22050
    /\ left.faults = OpenOnly.faults
    /\ file = "open"
    /\ call.err = "InvalidSampleRate" /\ disk = <<>>

\* C10: while description.BitsPerSample is not 8, 16 or 32, each WriteBytes
\* call and each WriteChannels call (one with empty channels too) returns an
\* error.
C10_BadDepthWritesFail ==
    (call.op \in WriteOps /\ description.BitsPerSample \notin SupportedBits)
    => call.err # "nil"

\* the length of the header the writer's Open stores
HeaderLen == IF kind = "WaveFile" THEN 44 ELSE 54
\* the bytes behind the header
Payload == SubSeq(disk, HeaderLen + 1, Len(disk))
\* the file that holds this payload, as a function of the description and the
\* payload alone: the header of Open with its size fields set from the number
\* of payload bytes (the sample frames field of AIFF as Close divides), then
\* the payload
WholeFile(payload) ==
    LET n == Digits(Len(payload), 4)
    IN  IF kind = "WaveFile"
        THEN PutAt(PutAt(WaveFile_writeHeader(description).buf,
                         LittleEndian32(n), 40),
                   LittleEndian32(AddD(n, Digits(36, 4))), 4) \o payload
        ELSE PutAt(PutAt(PutAt(AiffFile_writeHeader(description).buf,
                               BigEndian32(AddD(n, Digits(8, 4))), 42),
                         BigEndian32(QuoI32(n, description.BitsPerSample)), 22),
                   BigEndian32(AddD(n, Digits(46, 4))), 4) \o payload

\* C11: after a successful Open, successful writes and a successful Close the
\* whole file, its size fields included, is a function of the description
\* and the payload bytes alone: however the payload was split into WriteBytes
\* and WriteChannels calls, the file is the one a single call leaves.
C11_SplitIndependent ==
    ClosedCleanly => (Len(disk) >= HeaderLen /\ disk = WholeFile(Payload))
\* four payload bytes written by two calls of two bytes each, one of them a
\* WriteBytes and one a WriteChannels
C11_Witness ==
    /\ kind = "WaveFile" /\ ClosedCleanly
    /\ description = [NumChannels |-> 1, SampleRate |-> 48000, BitsPerSample |-> 8]
    /\ left.writes = 0 /\ left.raw = 0 /\ left.frames = 0
    /\ Len(Payload) = 4
    /\ SubSeq(disk, 41, 44) = <<4, 0, 0, 0>>
    /\ SubSeq(disk, 5, 8) = <<40, 0, 0, 0>>

\* C12: a Close on an open handle that returns an error, so also one whose
\* positioned write of a size field failed, has released the handle by the
\* time it returns.
C12_CloseReleasesHandle ==
    (call.op = "Close" /\ call.was = "open" /\ call.err # "nil") => file = "closed"

\* C13: a Close on a writer that was never opened, or on which Close was
\* called before (since its Open), returns an error and leaves the file as
\* it was.
C13_CloseOnlyWhenOpen ==
    [][(call'.op = "Close" /\ (nopens = 0 \/ afterClose))
       => (call'.err # "nil" /\ disk' = disk)]_vars

\* C14: an Open on a writer that holds a handle, open or closed, returns an
\* error, creates or truncates no file and leaves the handle in place.
C14_OpenOnlyWhenUnopened ==
    [][(call'.op = "Open" /\ file # "nil")
       => (call'.err # "nil" /\ disk' = disk /\ file' = file)]_vars

\* C15: when an Open has returned nil the running total is zero.
C15_OpenResetsTotal ==
    (call.op = "Open" /\ call.err = "nil") => bytesWritten = Digits(0, 4)

\* C16: after a successful Open with a valid description, any write calls and
\* a successful Close, the container size field is the length of the file
\* minus 8 and the data size field counts the bytes behind it; with no
\* payload these are 36 and 0 (WAVE), 46 and 8 with 0 sample frames (AIFF).
C16_HeaderConsistent ==
    (/\ nopens = 1 /\ opened /\ call.op = "Close" /\ call.err = "nil"
     /\ description.NumChannels > 0 /\ description.BitsPerSample \in SupportedBits)
    => /\ Len(disk) >= HeaderLen
       /\ IF kind = "WaveFile"
          THEN /\ SubSeq(disk, 5, 8) = LittleEndian(Len(disk) - 8, 4)
               /\ SubSeq(disk, 41, 44) = LittleEndian(Len(disk) - 44, 4)
          ELSE /\ SubSeq(disk, 5, 8) = BigEndian(Len(disk) - 8, 4)
               /\ SubSeq(disk, 43, 46) = BigEndian(Len(disk) - 46, 4)
               /\ Len(disk) = 54 => SubSeq(disk, 23, 26) = BigEndian(0, 4)
\* AIFF, no write call at all
C16_Witness ==
    /\ kind = "AiffFile" /\ opened /\ call.op = "Close" /\ call.err = "nil"
    /\ description = [NumChannels |-> 2, SampleRate |-> 96000, BitsPerSample |-> 32]
    /\ left.writes = Cycle.writes
    /\ Len(disk) = 54
    /\ SubSeq(disk, 5, 8) = <<0, 0, 0, 46>>
    /\ SubSeq(disk, 43, 46) = <<0, 0, 0, 8>>
    /\ SubSeq(disk, 23, 26) = <<0, 0, 0, 0>>

\* the bytes the i-th sample of the one-channel call that has just returned
\* was stored as (the call is the first write after Open)
Stored(i) ==
    LET w == description.BitsPerSample \div 8
    IN  SubSeq(disk, HeaderLen + (i - 1) * w + 1, HeaderLen + i * w)
\* all samples of that call
Samples == IF Len(call.channels) = 1 THEN call.channels[1] ELSE <<>>
MonoWritten == call.op = "WriteChannels" /\ call.err = "nil" /\ opened
\* a 16-bit integer in the byte order of the writer
Int16Bytes(x) ==
    IF kind = "WaveFile" THEN LittleEndian((x + 65536) % 65536, 2)
    ELSE BigEndian((x + 65536) % 65536, 2)

\* C17: a sample greater than 1 is stored as the encoding of 1 and a sample
\* less than -1 as the encoding of -1, at every bit depth.
C17_Clipped ==
    MonoWritten =>
        \A i \in 1..Len(Samples) :
            /\ Samples[i].num > Samples[i].den
                   => Stored(i) \in Encodings([num |-> 1, den |-> 1])
            /\ Samples[i].num < -Samples[i].den
                   => Stored(i) \in Encodings([num |-> -1, den |-> 1])

\* C18 as stated: at 16 bits the sample 1 is stored as 32767, the sample -1
\* as -32768 and the sample 0 as 0.
C18_Boundary16_Stated ==
    (MonoWritten /\ description.BitsPerSample = 16) =>
        \A i \in 1..Len(Samples) :
            /\ Samples[i] = [num |-> 1, den |-> 1] => Stored(i) = Int16Bytes(32767)
            /\ Samples[i] = [num |-> -1, den |-> 1] => Stored(i) = Int16Bytes(-32768)
            /\ Samples[i] = [num |-> 0, den |-> 1] => Stored(i) = Int16Bytes(0)
\* C18, amended: at 16 bits the sample 1 is stored as 32767, the sample -1 as
\* -32767 (the value of the formula value * 32767) and the sample 0 as 0.
C18_Boundary16 ==
    (MonoWritten /\ description.BitsPerSample = 16) =>
        \A i \in 1..Len(Samples) :
            /\ Samples[i] = [num |-> 1, den |-> 1] => Stored(i) = Int16Bytes(32767)
            /\ Samples[i] = [num |-> -1, den |-> 1] => Stored(i) = Int16Bytes(-32767)
            /\ Samples[i] = [num |-> 0, den |-> 1] => Stored(i) = Int16Bytes(0)
\* WAVE, the samples -1 and 1 in one call
C18_Witness ==
    /\ kind = "WaveFile" /\ MonoWritten /\ description.BitsPerSample = 16
    /\ Samples = <<[num |-> -1, den |-> 1], [num |-> 1, den |-> 1]>>
    /\ Payload = <<1, 128, 255, 127>>

\* C19: a WriteBytes call adds to the running total the number of bytes the
\* file reports as written, which is the number of bytes by which the file
\* offset moved and the file grew, and it returns an error when that is not
\* all of them; a Close that then returns nil (after the one successful Open)
\* sets the data size field to the number of bytes that are in the file
\* behind the header.
C19_PartialWriteCounted ==
    [][/\ call'.op = "WriteBytes" =>
            /\ bytesWritten' = AddD(bytesWritten, Digits(call'.n, 4))
            /\ pos' = pos + call'.n
            /\ pos = Len(disk) => disk' = disk \o Prefix(call'.bytes, call'.n)
            /\ call'.n < Len(call'.bytes) => call'.err # "nil"
       /\ (call'.op = "Close" /\ call'.err = "nil" /\ opened /\ nopens = 1) =>
            IF kind = "WaveFile"
            THEN SubSeq(disk', 41, 44) = LittleEndian(Len(disk') - 44, 4)
            ELSE SubSeq(disk', 43, 46) = BigEndian(Len(disk') - 46, 4)]_vars
\* two bytes handed over, one of them stored, then Close
C19_Witness ==
    /\ kind = "WaveFile" /\ opened /\ nopens = 1
    /\ call.op = "Close" /\ call.err = "nil"
    /\ left.raw = 0 /\ left.faults = 0 /\ ~clean
    /\ Len(disk) = 45
    /\ bytesWritten = Digits(1, 4)
    /\ SubSeq(disk, 41, 44) = <<1, 0, 0, 0>>

\* C20: a WriteChannels call with at least one channel and at least one
\* sample in each, on a writer whose bit depth is not 8, 16 or 32, returns an
\* error and leaves the file, the file offset and the running total as they
\* were.
C20_BadDepthWritesNothing ==
    [][(/\ call'.op = "WriteChannels"
        /\ description.BitsPerSample \notin SupportedBits
        /\ Len(call'.channels) >= 1
        /\ \A i \in 1..Len(call'.channels) : Len(call'.channels[i]) >= 1)
       => (/\ call'.err # "nil"
           /\ disk' = disk /\ pos' = pos /\ bytesWritten' = bytesWritten)]_vars
\* two channels of two samples each at 24 bits, on an open writer
C20_Witness ==
    /\ call.op = "WriteChannels" /\ call.was = "open" /\ opened
    /\ description.BitsPerSample = 24 /\ description.NumChannels = 2
    /\ Len(call.channels) = 2
    /\ Len(call.channels[1]) = 2 /\ Len(call.channels[2]) = 2
    /\ call.err = "InvalidBitDepth"
    /\ disk = WaveFile_writeHeader(description).buf

\* C21: on a writer whose Open returned an error, a WriteBytes or
\* WriteChannels call returns an error and leaves the file as it was.
C21_FailedOpenNotOpen ==
    [][(call'.op \in WriteOps /\ nopens >= 1 /\ ~opened)
       => (call'.err # "nil" /\ disk' = disk)]_vars

\* the offsets of the size fields Close sets
PatchedOffsets ==
    IF kind = "WaveFile" THEN (4..7) \cup (40..43)
    ELSE (4..7) \cup (22..25) \cup (42..45)

\* C22: on a writer whose Open returned nil the payload starts right behind
\* the header (offset 44 or 54), a write call only appends to the file, and a
\* Close leaves the length of the file and every byte outside the size
\* fields as they were.
C22_AppendOnly ==
    [][/\ (call'.op = "Open" /\ call'.err = "nil") =>
            (Len(disk') = HeaderLen /\ pos' = HeaderLen)
       /\ (call'.op \in WriteOps /\ opened) =>
            /\ pos = Len(disk)
            /\ Len(disk') = Len(disk) + call'.n
            /\ SubSeq(disk', 1, Len(disk)) = disk
       /\ (call'.op = "Close" /\ opened) =>
            /\ Len(disk') = Len(disk)
            /\ \A k \in 0..(Len(disk) - 1) :
                   k \notin PatchedOffsets => disk'[k + 1] = disk[k + 1]]_vars
\* AIFF: two bytes of payload behind the header, then Close
C22_Witness ==
    /\ kind = "AiffFile" /\ ClosedCleanly
    /\ Len(disk) = 56
    /\ Payload = <<7, 7>>
    /\ SubSeq(disk, 1, 4) = TagFORM /\ SubSeq(disk, 39, 42) = TagSSND
    /\ SubSeq(disk, 43, 46) = <<0, 0, 0, 10>>

\* C23: WaveFile.Open with at least one channel and 8, 16 or 32 bits stores
\* channels * bitsPerSample / 8 at offset 32 (16 bits) and sampleRate times
\* that at offset 28 (32 bits), computed without a wrap of the product
\* channels * bitsPerSample.
C23_BlockAlignNoWrap ==
    (/\ kind = "WaveFile" /\ call.op = "Open" /\ call.err = "nil"
     /\ call.desc.NumChannels >= 1 /\ call.desc.BitsPerSample \in SupportedBits)
    => LET blockAlign == call.desc.NumChannels * (call.desc.BitsPerSample \div 8)
       IN  /\ SubSeq(disk, 33, 34) = LittleEndian(blockAlign, 2)
           /\ SubSeq(disk, 29, 32)
                  = LittleEndian32(MulD(Digits(call.desc.SampleRate, 4), blockAlign))

\* the number of payload bytes the file holds, as 32 bits (it is under 2^32
\* while blocks < 4)
TrueCount ==
    AddD(MulD(Digits(Pow2(30), 4), blocks), Digits(Len(disk) - HeaderLen, 4))

\* C24: while the payload written is under 2^32 bytes, the running total of
\* an opened writer is the number of payload bytes written, and the fields a
\* clean Close patches hold the values computed from that number: the total
\* and total + 36 (WAVE), total + 8, total + 46 and the total divided by the
\* divisor of closeCommonChunk (AIFF).
C24_TotalIsTrue ==
    /\ (opened /\ blocks < 4) => bytesWritten = TrueCount
    /\ (ClosedCleanly /\ blocks < 4 /\ kind = "WaveFile") =>
           /\ SubSeq(disk, 41, 44) = LittleEndian32(TrueCount)
           /\ SubSeq(disk, 5, 8) = LittleEndian32(AddD(TrueCount, Digits(36, 4)))
    /\ (ClosedCleanly /\ blocks < 4 /\ kind = "AiffFile") =>
           /\ SubSeq(disk, 43, 46) = BigEndian32(AddD(TrueCount, Digits(8, 4)))
           /\ SubSeq(disk, 5, 8) = BigEndian32(AddD(TrueCount, Digits(46, 4)))
           /\ SubSeq(disk, 23, 26)
                  = BigEndian32(DivD(TrueCount, description.BitsPerSample))

\* floor(log2(n)) for n >= 1
Log2(n) ==
    LET RECURSIVE l(_)
        l(m) == IF m < 2 THEN 0 ELSE 1 + l(m \div 2)
    IN  l(n)
\* the 80-bit extended encoding of a rate 1 <= rate < 2^24, big-endian: sign
\* 0 and exponent 16383 + floor(log2(rate)) in two bytes, then the 64-bit
\* mantissa, which is rate shifted left until its top bit is bit 63 (its
\* three high bytes are rate * 2^(23 - floor(log2(rate))), the rest is 0)
Ext80(rate) ==
    BigEndian(16383 + Log2(rate), 2)
        \o BigEndian(rate * Pow2(23 - Log2(rate)), 3)
        \o <<0, 0, 0, 0, 0>>

\* C25: after an AiffFile.Open that returned nil, the 10 bytes at offset 28
\* are the 80-bit extended encoding of the sample rate, and two descriptions
\* of different supported rates never get the same 10 bytes.
C25_Extended80 ==
    /\ (kind = "AiffFile" /\ call.op = "Open" /\ call.err = "nil")
           => SubSeq(disk, 29, 38) = Ext80(call.desc.SampleRate)
    /\ \A d1, d2 \in OpenDescriptions :
           (/\ AiffFile_convertSampleRate(d1).err = "nil"
            /\ AiffFile_convertSampleRate(d2).err = "nil"
            /\ d1.SampleRate # d2.SampleRate)
           => AiffFile_convertSampleRate(d1).buf # AiffFile_convertSampleRate(d2).buf
C25_Witness ==
    /\ kind = "AiffFile" /\ call.op = "Open" /\ call.err = "nil"
    /\ call.desc.SampleRate = SampleRate44_1k
    /\ Len(disk) = 54
    /\ SubSeq(disk, 29, 38) = <<64, 14, 172, 68, 0, 0, 0, 0, 0, 0>>

====
